---- MODULE Spec2Model ----
(***************************************************************************)
(* A model of the collections package: the doubly linked chain (LLNode)    *)
(* with the Queue and Stack built on it (queue.go), the slice algorithms   *)
(* (slice.go) and the Set constructors (set.go).                           *)
(*                                                                         *)
(* Go slices are 0-based; the sequences here are 1-based, so sl[i] of the  *)
(* source is sl[i + 1] here.  The loop counters keep the source's values.  *)
(***************************************************************************)
EXTENDS Integers, Sequences, FiniteSets, TLC

\* ---------------------------------------------------------------- bounds
MaxVal == 2
MaxLen == 3
MaxNodes == 4

\* The element type T is int; its values are drawn from 0..MaxVal.
Values == 0..MaxVal

\* The zero value of T, as produced by *new(T) and by make([]T, n).
ZeroValue == 0

\* The nil *LLNode; node references are 1..Len(nodes).
NIL == 0

VARIABLES
    obj,      \* which structure the program constructed: "Queue" or "Stack"
    nodes,    \* the heap: every LLNode allocated so far, by reference
    qHead,    \* Queue.Head
    sHead,    \* Stack.Head
    ret,      \* what the last Queue/Stack call returned
    abs,      \* the abstract contents: the values inserted and not yet removed
    absRet,   \* what the abstract structure returns for the last call
    ins,      \* number of insertions so far
    rem,      \* number of successful removals so far
    sl,       \* the slice argument (sl, slice, elements) of the slice and set calls
    sub,      \* the second slice argument of SliceSubset / SliceSubsetStrict
    pred,     \* the UnaryPredicate argument, as the set of values it accepts
    called,   \* the functions called so far on these arguments
    out,      \* what each function called returned
    setA,     \* a Set[T] the program holds, changed by Add and Remove
    setB,     \* a second Set[T]
    eqRet     \* what Equals returned for setA and setB as they are now

llvars == <<obj, nodes, qHead, sHead, ret, abs, absRet, ins, rem>>
fnvars == <<sl, sub, pred, called, out>>
setvars == <<setA, setB, eqRet>>
vars == <<obj, nodes, qHead, sHead, ret, abs, absRet, ins, rem,
          sl, sub, pred, called, out, setA, setB, eqRet>>

\* No Equals result: the sets changed since the last call, or none was made.
NoEq == [valid |-> FALSE, ab |-> FALSE, ba |-> FALSE, aa |-> FALSE, bb |-> FALSE]

\* The two sets as NewSet() leaves them, and no Equals call made.
SetIdle ==
    /\ setA = {}
    /\ setB = {}
    /\ eqRet = NoEq

\* No slice or set-constructor call made.
FnIdle ==
    /\ sl = <<>>
    /\ sub = <<>>
    /\ pred = {}
    /\ called = {}
    /\ out = <<>>

\* ------------------------------------------------------------ LLNode
LLNode(val, prev, next) == [Value |-> val, Prev |-> prev, Next |-> next]

\* for curr != nil { n++; curr = curr.Next }
RECURSIVE LenLoop(_, _, _)
LenLoop(h, curr, n) ==
    IF curr # NIL THEN LenLoop(h, h[curr].Next, n + 1) ELSE n

LLLen(h, head) == LenLoop(h, head, 0)

\* for i := 0; i < llLen; i++ { result[i] = curr.Value; curr = curr.Next }
RECURSIVE RangeLoop(_, _, _, _, _)
RangeLoop(h, curr, i, llLen, result) ==
    IF i < llLen
    THEN RangeLoop(h, h[curr].Next, i + 1, llLen,
                   [result EXCEPT ![i + 1] = h[curr].Value])
    ELSE result

LLRange(h, head) ==
    LET llLen == LLLen(h, head)
    IN  RangeLoop(h, head, 0, llLen, [i \in 1..llLen |-> ZeroValue])

\* for curr.Next != nil { curr = curr.Next }
RECURSIVE TailLoop(_, _)
TailLoop(h, curr) ==
    IF h[curr].Next # NIL THEN TailLoop(h, h[curr].Next) ELSE curr

\* AddToTail without the walk to the last node: the new node is linked
\* right behind head.
AddToTailAtHead(h, head, val) ==
    LET node == Len(h) + 1
    IN  [heap |-> Append([h EXCEPT ![head].Next = node], LLNode(val, head, NIL)),
         node |-> node]

\* The heap after head.AddToTail(val), and the node it returns.
AddToTail(h, head, val) ==
    LET curr == TailLoop(h, head)
        node == Len(h) + 1
    IN  [heap |-> Append([h EXCEPT ![curr].Next = node], LLNode(val, curr, NIL)),
         node |-> node]

\* AddToHead with Prev and Next swapped: the new node is linked behind head.
AddToHeadLinksSwapped(h, head, val) ==
    LET node == Len(h) + 1
    IN  [heap |-> Append([h EXCEPT ![head].Next = node], LLNode(val, head, NIL)),
         node |-> node]

\* AddToHead that writes head.Next where the source writes head.Prev.
AddToHeadSetsNext(h, head, val) ==
    LET node == Len(h) + 1
    IN  [heap |-> Append([h EXCEPT ![head].Next = node], LLNode(val, NIL, head)),
         node |-> node]

\* The heap after head.AddToHead(val), and the node it returns.
AddToHead(h, head, val) ==
    LET node == Len(h) + 1
    IN  [heap |-> Append([h EXCEPT ![head].Prev = node], LLNode(val, NIL, head)),
         node |-> node]

\* RemoveSelf that also clears the removed node's own Prev and Next.
RemoveSelfClearsOwnLinks(h, n) ==
    LET h1 == IF h[n].Prev # NIL THEN [h EXCEPT ![h[n].Prev].Next = h[n].Next] ELSE h
        h2 == IF h1[n].Next # NIL THEN [h1 EXCEPT ![h1[n].Next].Prev = h1[n].Prev] ELSE h1
    IN  [h2 EXCEPT ![n].Prev = NIL, ![n].Next = NIL]

\* The heap after n.RemoveSelf(): n's own links are left as they were.
RemoveSelf(h, n) ==
    LET h1 == IF h[n].Prev # NIL THEN [h EXCEPT ![h[n].Prev].Next = h[n].Next] ELSE h
    IN  IF h1[n].Next # NIL THEN [h1 EXCEPT ![h1[n].Next].Prev = h1[n].Prev] ELSE h1

\* ------------------------------------------------------------- Queue
NoRet == [op |-> "none", val |-> ZeroValue, err |-> "nil"]

\* q.Enqueue(val): the heap and q.Head afterwards.
QueueEnqueue(h, head, val) ==
    IF head = NIL
    THEN [heap |-> Append(h, LLNode(val, NIL, NIL)), head |-> Len(h) + 1]
    ELSE [heap |-> AddToTail(h, head, val).heap, head |-> head]

\* Dequeue that also reports a one-element queue as empty.
QueueDequeueOffByOne(h, head) ==
    IF head = NIL \/ h[head].Next = NIL
    THEN [head |-> head, val |-> ZeroValue, err |-> "ErrQueueEmpty"]
    ELSE [head |-> h[head].Next, val |-> h[head].Value, err |-> "nil"]

\* q.Dequeue(): q.Head afterwards and the (T, error) returned.
QueueDequeue(h, head) ==
    IF head = NIL
    THEN [head |-> head, val |-> ZeroValue, err |-> "ErrQueueEmpty"]
    ELSE LET result == head
         IN  [head |-> h[result].Next, val |-> h[result].Value, err |-> "nil"]

Enqueue(val) ==
    /\ obj = "Queue"
    /\ Len(nodes) < MaxNodes
    /\ LET r == QueueEnqueue(nodes, qHead, val)
       IN  /\ nodes' = r.heap
           /\ qHead' = r.head
    /\ ret' = [op |-> "Enqueue", val |-> ZeroValue, err |-> "nil"]
    /\ abs' = Append(abs, val)
    /\ absRet' = ret'
    /\ ins' = ins + 1
    /\ UNCHANGED <<obj, sHead, rem>>
    /\ UNCHANGED fnvars
    /\ UNCHANGED setvars

Dequeue ==
    /\ obj = "Queue"
    /\ LET r == QueueDequeue(nodes, qHead)
       IN  /\ qHead' = r.head
           /\ ret' = [op |-> "Dequeue", val |-> r.val, err |-> r.err]
    /\ IF abs = <<>>
       THEN /\ absRet' = [op |-> "Dequeue", val |-> ZeroValue, err |-> "ErrQueueEmpty"]
            /\ UNCHANGED <<abs, rem>>
       ELSE /\ absRet' = [op |-> "Dequeue", val |-> Head(abs), err |-> "nil"]
            /\ abs' = Tail(abs)
            /\ rem' = rem + 1
    /\ UNCHANGED <<obj, nodes, sHead, ins>>
    /\ UNCHANGED fnvars
    /\ UNCHANGED setvars

\* ------------------------------------------------------------- Stack
\* Push that leaves s.Head at the old head.
StackPushKeepsHead(h, head, val) ==
    IF head = NIL
    THEN [heap |-> Append(h, LLNode(val, NIL, NIL)), head |-> Len(h) + 1]
    ELSE [heap |-> AddToHead(h, head, val).heap, head |-> head]

\* s.Push(val): the heap and s.Head afterwards.
StackPush(h, head, val) ==
    IF head = NIL
    THEN [heap |-> Append(h, LLNode(val, NIL, NIL)), head |-> Len(h) + 1]
    ELSE LET r == AddToHead(h, head, val)
         IN  [heap |-> r.heap, head |-> r.node]

\* Pop that advances s.Head without oldHead.RemoveSelf().
StackPopNoRemoveSelf(h, head) ==
    IF head = NIL
    THEN [heap |-> h, head |-> head, val |-> ZeroValue, err |-> "ErrStackEmpty"]
    ELSE [heap |-> h, head |-> h[head].Next, val |-> h[head].Value, err |-> "nil"]

\* s.Pop(): the heap and s.Head afterwards and the (T, error) returned.
StackPop(h, head) ==
    IF head = NIL
    THEN [heap |-> h, head |-> head, val |-> ZeroValue, err |-> "ErrStackEmpty"]
    ELSE LET oldHead == head
         IN  [heap |-> RemoveSelf(h, oldHead), head |-> h[head].Next,
              val |-> h[oldHead].Value, err |-> "nil"]

Push(val) ==
    /\ obj = "Stack"
    /\ Len(nodes) < MaxNodes
    /\ LET r == StackPush(nodes, sHead, val)
       IN  /\ nodes' = r.heap
           /\ sHead' = r.head
    /\ ret' = [op |-> "Push", val |-> ZeroValue, err |-> "nil"]
    /\ abs' = <<val>> \o abs
    /\ absRet' = ret'
    /\ ins' = ins + 1
    /\ UNCHANGED <<obj, qHead, rem>>
    /\ UNCHANGED fnvars
    /\ UNCHANGED setvars

Pop ==
    /\ obj = "Stack"
    /\ LET r == StackPop(nodes, sHead)
       IN  /\ nodes' = r.heap
           /\ sHead' = r.head
           /\ ret' = [op |-> "Pop", val |-> r.val, err |-> r.err]
    /\ IF abs = <<>>
       THEN /\ absRet' = [op |-> "Pop", val |-> ZeroValue, err |-> "ErrStackEmpty"]
            /\ UNCHANGED <<abs, rem>>
       ELSE /\ absRet' = [op |-> "Pop", val |-> Head(abs), err |-> "nil"]
            /\ abs' = Tail(abs)
            /\ rem' = rem + 1
    /\ UNCHANGED <<obj, qHead, ins>>
    /\ UNCHANGED fnvars
    /\ UNCHANGED setvars

LLInit ==
    /\ obj \in {"Queue", "Stack"}
    /\ nodes = <<>>
    /\ qHead = NIL
    /\ sHead = NIL
    /\ ret = NoRet
    /\ abs = <<>>
    /\ absRet = NoRet
    /\ ins = 0
    /\ rem = 0
    /\ sl = <<>>
    /\ sub = <<>>
    /\ pred = {}
    /\ called = {}
    /\ out = <<>>
    /\ SetIdle

LLNext ==
    \/ \E val \in Values : Enqueue(val)
    \/ Dequeue
    \/ \E val \in Values : Push(val)
    \/ Pop

Spec == LLInit /\ [][LLNext]_vars

\* ------------------------------------------- LLNode used directly
\* Whether the walk along Next from n ends at nil: it does so within Len(h)
\* steps or it runs round a cycle for ever.
RECURSIVE ReachesNil(_, _, _)
ReachesNil(h, n, fuel) ==
    IF n = NIL THEN TRUE
    ELSE IF fuel = 0 THEN FALSE
    ELSE ReachesNil(h, h[n].Next, fuel - 1)

Terminates(h, n) == ReachesNil(h, n, Len(h))

\* The program holds nodes only, every one of them still referenced.
NodesInit ==
    /\ obj = "Nodes"
    /\ nodes = <<>>
    /\ qHead = NIL
    /\ sHead = NIL
    /\ ret = NoRet
    /\ abs = <<>>
    /\ absRet = NoRet
    /\ ins = 0
    /\ rem = 0
    /\ FnIdle
    /\ SetIdle

\* &LLNode[T]{Value: val}
NewNode(val) ==
    /\ Len(nodes) < MaxNodes
    /\ nodes' = Append(nodes, LLNode(val, NIL, NIL))
    /\ UNCHANGED <<obj, qHead, sHead, ret, abs, absRet, ins, rem>>
    /\ UNCHANGED fnvars
    /\ UNCHANGED setvars

\* n.AddToTail(val) on any node; the call returns only if its walk ends.
NodeAddToTail(n, val) ==
    /\ Len(nodes) < MaxNodes
    /\ Terminates(nodes, n)
    /\ nodes' = AddToTail(nodes, n, val).heap
    /\ UNCHANGED <<obj, qHead, sHead, ret, abs, absRet, ins, rem>>
    /\ UNCHANGED fnvars
    /\ UNCHANGED setvars

\* n.AddToHead(val) on any node.
NodeAddToHead(n, val) ==
    /\ Len(nodes) < MaxNodes
    /\ nodes' = AddToHead(nodes, n, val).heap
    /\ UNCHANGED <<obj, qHead, sHead, ret, abs, absRet, ins, rem>>
    /\ UNCHANGED fnvars
    /\ UNCHANGED setvars

\* n.RemoveSelf() on any node, one removed before included.
NodeRemoveSelf(n) ==
    /\ nodes' = RemoveSelf(nodes, n)
    /\ UNCHANGED <<obj, qHead, sHead, ret, abs, absRet, ins, rem>>
    /\ UNCHANGED fnvars
    /\ UNCHANGED setvars

\* The values given to nodes used directly: the zero value, or one that
\* changes with the number of nodes allocated so far, so that neighbours can
\* carry equal or different values.  No LLNode method reads a Value to decide
\* anything.
NodeValues == {ZeroValue, Len(nodes) % (MaxVal + 1)}

NodesNext ==
    \/ \E val \in NodeValues : NewNode(val)
    \/ \E n \in 1..Len(nodes) : \E val \in NodeValues : NodeAddToTail(n, val)
    \/ \E n \in 1..Len(nodes) : \E val \in NodeValues : NodeAddToHead(n, val)
    \/ \E n \in 1..Len(nodes) : NodeRemoveSelf(n)

SpecNodes == NodesInit /\ [][NodesNext]_vars

\* ------------------------------------------------------------- Slice
\* Every slice of at most MaxLen values.
Slices == UNION {[1..n -> Values] : n \in 0..MaxLen}

\* The (bool) result of a call, or the run-time panic that ended it.
Returned(b) == [panic |-> FALSE, val |-> b]
Panicked == [panic |-> TRUE, val |-> FALSE]

\* for i := 0; i < len(sl); i++ { if sl[i] == sub[subIdx] {...} else {...} }
\* Reading sub[subIdx] with subIdx >= len(sub) is an index-out-of-range panic.
RECURSIVE subsetLoop(_, _, _, _)
subsetLoop(s, sb, i, subIdx) ==
    IF i < Len(s)
    THEN IF subIdx >= Len(sb)
         THEN Panicked
         ELSE IF s[i + 1] = sb[subIdx + 1]
              THEN IF subIdx = Len(sb) - 1
                   THEN Returned(TRUE)
                   ELSE subsetLoop(s, sb, i + 1, subIdx + 1)
              ELSE subsetLoop(s, sb, i + 1, 0)
    ELSE Returned(FALSE)

\* subset whose cursor stays where it is on a mismatch (no reset).
RECURSIVE subsetLoopNoReset(_, _, _, _)
subsetLoopNoReset(s, sb, i, subIdx) ==
    IF i < Len(s)
    THEN IF subIdx >= Len(sb)
         THEN Panicked
         ELSE IF s[i + 1] = sb[subIdx + 1]
              THEN IF subIdx = Len(sb) - 1
                   THEN Returned(TRUE)
                   ELSE subsetLoopNoReset(s, sb, i + 1, subIdx + 1)
              ELSE subsetLoopNoReset(s, sb, i + 1, subIdx)
    ELSE Returned(FALSE)

subsetNoReset(s, sb) == subsetLoopNoReset(s, sb, 0, 0)

subset(s, sb) == subsetLoop(s, sb, 0, 0)

SliceSubset(s, sb) ==
    IF Len(sb) > Len(s) THEN Returned(FALSE) ELSE subset(s, sb)

\* SliceSubsetStrict with the length guard of SliceSubset.
SliceSubsetStrictSameSize(s, sb) ==
    IF Len(sb) > Len(s) THEN Returned(FALSE) ELSE subset(s, sb)

SliceSubsetStrict(s, sb) ==
    IF Len(sb) > Len(s) - 1 THEN Returned(FALSE) ELSE subset(s, sb)

\* for i := 0; i < len(sl); i++ { if pred(sl[i]) { result[resultIdx] = sl[i]; resultIdx++ } }
RECURSIVE FilterLoop(_, _, _, _, _)
FilterLoop(s, p, i, result, resultIdx) ==
    IF i < Len(s)
    THEN IF s[i + 1] \in p
         THEN FilterLoop(s, p, i + 1,
                         [result EXCEPT ![resultIdx + 1] = s[i + 1]], resultIdx + 1)
         ELSE FilterLoop(s, p, i + 1, result, resultIdx)
    ELSE [result |-> result, resultIdx |-> resultIdx]

SliceFilter(s, p) ==
    LET r == FilterLoop(s, p, 0, [i \in 1..Len(s) |-> ZeroValue], 0)
    IN  IF r.resultIdx < Len(r.result) - 1
        THEN SubSeq(r.result, 1, r.resultIdx)
        ELSE r.result

\* Slice[T].Filter and AnySlice[T].Filter
SliceMethodFilter(s, p) == SliceFilter(s, p)
AnySliceMethodFilter(s, p) == SliceFilter(s, p)

\* --------------------------------------------------------------- Set
\* Set[T] is a map[T]struct{}: its keys are the members.
SetAdd(set, el) == set \cup {el}
SetContains(set, el) == el \in set
SetRemove(set, el) == set \ {el}

\* Equals without the comparison of the two lengths.
SetEqualsNoLenCheck(s, s2) == \A el \in s : SetContains(s2, el)

\* s.Equals(s2): false on different lengths, else false at the first member
\* of s that s2 does not contain, in whatever order the map is ranged over.
SetEquals(s, s2) ==
    IF Cardinality(s) # Cardinality(s2)
    THEN FALSE
    ELSE \A el \in s : SetContains(s2, el)

RECURSIVE NewSetLoop(_, _, _)
NewSetLoop(elements, i, set) ==
    IF i < Len(elements)
    THEN NewSetLoop(elements, i + 1, SetAdd(set, elements[i + 1]))
    ELSE set

NewSet(elements) == NewSetLoop(elements, 0, {})

RECURSIVE NewSetFromSliceLoop(_, _, _)
NewSetFromSliceLoop(s, i, set) ==
    IF i < Len(s)
    THEN NewSetFromSliceLoop(s, i + 1, SetAdd(set, s[i + 1]))
    ELSE set

\* NewSetFromSlice whose loop starts at i := 1.
NewSetFromSliceFromOne(s) == NewSetFromSliceLoop(s, 1, {})

NewSetFromSlice(s) == NewSetFromSliceLoop(s, 0, {})

\* for _, el := range slice { ... }, k the number of elements already visited.
\* dupes is nil until the first duplicate, then make([]T, len(slice)-1).
RECURSIVE SaveDuplicatesLoop(_, _, _)
SaveDuplicatesLoop(slice, k, st) ==
    IF k < Len(slice)
    THEN LET el == slice[k + 1]
         IN  IF SetContains(st.set, el)
             THEN LET dupes == IF st.dupesNil
                               THEN [i \in 1..(Len(slice) - 1) |-> ZeroValue]
                               ELSE st.dupes
                  IN  SaveDuplicatesLoop(slice, k + 1,
                          [set |-> st.set, dupesNil |-> FALSE,
                           dupes |-> [dupes EXCEPT ![st.dupesIdx + 1] = el],
                           dupesIdx |-> st.dupesIdx + 1])
             ELSE SaveDuplicatesLoop(slice, k + 1,
                          [st EXCEPT !.set = SetAdd(st.set, el)])
    ELSE st

\* NewSetSaveDuplicates whose dupes are allocated with make([]T, len(slice)).
RECURSIVE SaveDuplicatesLoopFullSize(_, _, _)
SaveDuplicatesLoopFullSize(slice, k, st) ==
    IF k < Len(slice)
    THEN LET el == slice[k + 1]
         IN  IF SetContains(st.set, el)
             THEN LET dupes == IF st.dupesNil
                               THEN [i \in 1..Len(slice) |-> ZeroValue]
                               ELSE st.dupes
                  IN  SaveDuplicatesLoopFullSize(slice, k + 1,
                          [set |-> st.set, dupesNil |-> FALSE,
                           dupes |-> [dupes EXCEPT ![st.dupesIdx + 1] = el],
                           dupesIdx |-> st.dupesIdx + 1])
             ELSE SaveDuplicatesLoopFullSize(slice, k + 1,
                          [st EXCEPT !.set = SetAdd(st.set, el)])
    ELSE st

NewSetSaveDuplicatesFullSize(slice) ==
    LET st == SaveDuplicatesLoopFullSize(slice, 0,
                  [set |-> {}, dupesNil |-> TRUE, dupes |-> <<>>, dupesIdx |-> 0])
    IN  IF ~st.dupesNil /\ st.dupesIdx < Len(st.dupes) - 1
        THEN [set |-> st.set, dupesNil |-> FALSE,
              dupes |-> SubSeq(st.dupes, 1, st.dupesIdx)]
        ELSE [set |-> st.set, dupesNil |-> st.dupesNil, dupes |-> st.dupes]

\* The (Set[T], []T) returned; dupesNil says the slice returned is nil.
NewSetSaveDuplicates(slice) ==
    LET st == SaveDuplicatesLoop(slice, 0,
                  [set |-> {}, dupesNil |-> TRUE, dupes |-> <<>>, dupesIdx |-> 0])
    IN  IF ~st.dupesNil /\ st.dupesIdx < Len(st.dupes) - 1
        THEN [set |-> st.set, dupesNil |-> FALSE,
              dupes |-> SubSeq(st.dupes, 1, st.dupesIdx)]
        ELSE [set |-> st.set, dupesNil |-> st.dupesNil, dupes |-> st.dupes]

\* ------------------------------------------- calls of the pure functions
LLIdle ==
    /\ obj = "none"
    /\ nodes = <<>>
    /\ qHead = NIL
    /\ sHead = NIL
    /\ ret = NoRet
    /\ abs = <<>>
    /\ absRet = NoRet
    /\ ins = 0
    /\ rem = 0

\* SliceSubset and SliceSubsetStrict on every pair of slices.
SubsetInit ==
    /\ LLIdle
    /\ SetIdle
    /\ sl \in Slices
    /\ sub \in Slices
    /\ pred = {}
    /\ called = {}
    /\ out = [SliceSubset |-> Returned(FALSE), SliceSubsetStrict |-> Returned(FALSE)]

CallSliceSubset ==
    /\ "SliceSubset" \notin called
    /\ called' = called \cup {"SliceSubset"}
    /\ out' = [out EXCEPT !.SliceSubset = SliceSubset(sl, sub)]
    /\ UNCHANGED <<sl, sub, pred>>
    /\ UNCHANGED llvars
    /\ UNCHANGED setvars

CallSliceSubsetStrict ==
    /\ "SliceSubsetStrict" \notin called
    /\ called' = called \cup {"SliceSubsetStrict"}
    /\ out' = [out EXCEPT !.SliceSubsetStrict = SliceSubsetStrict(sl, sub)]
    /\ UNCHANGED <<sl, sub, pred>>
    /\ UNCHANGED llvars
    /\ UNCHANGED setvars

SubsetNext == CallSliceSubset \/ CallSliceSubsetStrict

SpecSubset == SubsetInit /\ [][SubsetNext]_vars

\* SliceFilter, Slice.Filter and AnySlice.Filter on every slice and predicate.
FilterInit ==
    /\ LLIdle
    /\ SetIdle
    /\ sl \in Slices
    /\ sub = <<>>
    /\ pred \in SUBSET Values
    /\ called = {}
    /\ out = [SliceFilter |-> <<>>, SliceMethodFilter |-> <<>>,
              AnySliceMethodFilter |-> <<>>]

CallSliceFilter ==
    /\ "SliceFilter" \notin called
    /\ called' = called \cup {"SliceFilter"}
    /\ out' = [out EXCEPT !.SliceFilter = SliceFilter(sl, pred)]
    /\ UNCHANGED <<sl, sub, pred>>
    /\ UNCHANGED llvars
    /\ UNCHANGED setvars

CallSliceMethodFilter ==
    /\ "Slice.Filter" \notin called
    /\ called' = called \cup {"Slice.Filter"}
    /\ out' = [out EXCEPT !.SliceMethodFilter = SliceMethodFilter(sl, pred)]
    /\ UNCHANGED <<sl, sub, pred>>
    /\ UNCHANGED llvars
    /\ UNCHANGED setvars

CallAnySliceMethodFilter ==
    /\ "AnySlice.Filter" \notin called
    /\ called' = called \cup {"AnySlice.Filter"}
    /\ out' = [out EXCEPT !.AnySliceMethodFilter = AnySliceMethodFilter(sl, pred)]
    /\ UNCHANGED <<sl, sub, pred>>
    /\ UNCHANGED llvars
    /\ UNCHANGED setvars

FilterNext == CallSliceFilter \/ CallSliceMethodFilter \/ CallAnySliceMethodFilter

SpecFilter == FilterInit /\ [][FilterNext]_vars

\* The three Set constructors on every slice.
NoDuplicates == [set |-> {}, dupesNil |-> TRUE, dupes |-> <<>>]

SetInit ==
    /\ LLIdle
    /\ SetIdle
    /\ sl \in Slices
    /\ sub = <<>>
    /\ pred = {}
    /\ called = {}
    /\ out = [NewSet |-> {}, NewSetFromSlice |-> {},
              NewSetSaveDuplicates |-> NoDuplicates]

CallNewSet ==
    /\ "NewSet" \notin called
    /\ called' = called \cup {"NewSet"}
    /\ out' = [out EXCEPT !.NewSet = NewSet(sl)]
    /\ UNCHANGED <<sl, sub, pred>>
    /\ UNCHANGED llvars
    /\ UNCHANGED setvars

CallNewSetFromSlice ==
    /\ "NewSetFromSlice" \notin called
    /\ called' = called \cup {"NewSetFromSlice"}
    /\ out' = [out EXCEPT !.NewSetFromSlice = NewSetFromSlice(sl)]
    /\ UNCHANGED <<sl, sub, pred>>
    /\ UNCHANGED llvars
    /\ UNCHANGED setvars

CallNewSetSaveDuplicates ==
    /\ "NewSetSaveDuplicates" \notin called
    /\ called' = called \cup {"NewSetSaveDuplicates"}
    /\ out' = [out EXCEPT !.NewSetSaveDuplicates = NewSetSaveDuplicates(sl)]
    /\ UNCHANGED <<sl, sub, pred>>
    /\ UNCHANGED llvars
    /\ UNCHANGED setvars

SetNext == CallNewSet \/ CallNewSetFromSlice \/ CallNewSetSaveDuplicates

SpecSet == SetInit /\ [][SetNext]_vars

\* Two sets, both empty at first, changed by Add and Remove and compared by
\* Equals.
EqualsInit ==
    /\ LLIdle
    /\ FnIdle
    /\ SetIdle

AddA(el) ==
    /\ setA' = SetAdd(setA, el)
    /\ eqRet' = NoEq
    /\ UNCHANGED setB
    /\ UNCHANGED llvars
    /\ UNCHANGED fnvars

RemoveA(el) ==
    /\ setA' = SetRemove(setA, el)
    /\ eqRet' = NoEq
    /\ UNCHANGED setB
    /\ UNCHANGED llvars
    /\ UNCHANGED fnvars

AddB(el) ==
    /\ setB' = SetAdd(setB, el)
    /\ eqRet' = NoEq
    /\ UNCHANGED setA
    /\ UNCHANGED llvars
    /\ UNCHANGED fnvars

RemoveB(el) ==
    /\ setB' = SetRemove(setB, el)
    /\ eqRet' = NoEq
    /\ UNCHANGED setA
    /\ UNCHANGED llvars
    /\ UNCHANGED fnvars

\* A.Equals(B), B.Equals(A), A.Equals(A) and B.Equals(B).
CallEquals ==
    /\ eqRet' = [valid |-> TRUE,
                 ab |-> SetEquals(setA, setB), ba |-> SetEquals(setB, setA),
                 aa |-> SetEquals(setA, setA), bb |-> SetEquals(setB, setB)]
    /\ UNCHANGED <<setA, setB>>
    /\ UNCHANGED llvars
    /\ UNCHANGED fnvars

EqualsNext ==
    \/ \E el \in Values : AddA(el)
    \/ \E el \in Values : RemoveA(el)
    \/ \E el \in Values : AddB(el)
    \/ \E el \in Values : RemoveB(el)
    \/ CallEquals

SpecEquals == EqualsInit /\ [][EqualsNext]_vars

\* ------------------------------------------------------- Set claims

\* C4: for every input S, with (set, duplicates) = NewSetSaveDuplicates(S),
\* len(set) + len(duplicates) = len(S).
C4_SetPlusDuplicatesIsInput ==
    "NewSetSaveDuplicates" \in called =>
        Cardinality(out.NewSetSaveDuplicates.set)
            + Len(out.NewSetSaveDuplicates.dupes) = Len(sl)

\* The distinct values occurring in a slice.
Distinct(s) == {s[i] : i \in 1..Len(s)}

\* C10: NewSet(S...), NewSetFromSlice(S) and the set returned by
\* NewSetSaveDuplicates(S) have the same members, which are exactly the
\* distinct values occurring in S.
C10_ConstructorsAgree ==
    /\ "NewSet" \in called => out.NewSet = Distinct(sl)
    /\ "NewSetFromSlice" \in called => out.NewSetFromSlice = Distinct(sl)
    /\ "NewSetSaveDuplicates" \in called =>
           out.NewSetSaveDuplicates.set = Distinct(sl)
    /\ {"NewSet", "NewSetFromSlice", "NewSetSaveDuplicates"} \subseteq called =>
           /\ out.NewSet = out.NewSetFromSlice
           /\ out.NewSetFromSlice = out.NewSetSaveDuplicates.set

\* All three constructors were called on a slice that repeats some value and
\* holds at least two distinct ones.
C10_Witness ==
    /\ called = {"NewSet", "NewSetFromSlice", "NewSetSaveDuplicates"}
    /\ Cardinality(out.NewSet) >= 2
    /\ Cardinality(out.NewSet) < Len(sl)

\* C11: for every S of length n >= 1 whose elements are all the same value v,
\* NewSetSaveDuplicates(S) returns the set {v} and a duplicates list of length
\* n - 1 whose entries are all v; the list is nil when n = 1.
C11_AllIdenticalInput ==
    ("NewSetSaveDuplicates" \in called /\ Len(sl) >= 1
         /\ \A i \in 1..Len(sl) : sl[i] = sl[1]) =>
        /\ out.NewSetSaveDuplicates.set = {sl[1]}
        /\ out.NewSetSaveDuplicates.dupes = [i \in 1..(Len(sl) - 1) |-> sl[1]]
        /\ out.NewSetSaveDuplicates.dupesNil = (Len(sl) = 1)

\* NewSetSaveDuplicates was called on three or more copies of a value other
\* than the zero value.
C11_Witness ==
    /\ "NewSetSaveDuplicates" \in called
    /\ Len(sl) >= 3
    /\ \A i \in 1..Len(sl) : sl[i] = sl[1]
    /\ sl[1] # ZeroValue
    /\ Len(out.NewSetSaveDuplicates.dupes) >= 2

\* C12: for all sets A and B reached by Add and Remove, A.Equals(B) is true if
\* and only if A and B have exactly the same members; hence A.Equals(A) is
\* true, A.Equals(B) = B.Equals(A), and sets of different cardinality are
\* never equal.
C12_EqualsIsSameMembers ==
    eqRet.valid =>
        /\ eqRet.ab = (setA = setB)
        /\ eqRet.ba = (setB = setA)
        /\ eqRet.aa /\ eqRet.bb
        /\ eqRet.ab = eqRet.ba
        /\ Cardinality(setA) # Cardinality(setB) => ~eqRet.ab

\* Equals was called on two sets of the same size, two members or more, that
\* differ in a member.
C12_Witness ==
    /\ eqRet.valid
    /\ Cardinality(setA) >= 2
    /\ Cardinality(setA) = Cardinality(setB)
    /\ setA # setB
    /\ ~eqRet.ab

\* ----------------------------------------------------- Slice claims

Accepted(x) == x \in pred

\* C5: SliceFilter(S, pred), Slice.Filter and AnySlice.Filter return exactly
\* the elements of S for which pred holds, in their original order, and
\* nothing else.
C5_FilterKeepsExactlyAccepted ==
    /\ "SliceFilter" \in called => out.SliceFilter = SelectSeq(sl, Accepted)
    /\ "Slice.Filter" \in called => out.SliceMethodFilter = SelectSeq(sl, Accepted)
    /\ "AnySlice.Filter" \in called =>
           out.AnySliceMethodFilter = SelectSeq(sl, Accepted)

\* sb is a subsequence of s: its elements appear in s in the same relative
\* order, not necessarily contiguously.
IsSubsequence(sb, s) ==
    \E f \in [1..Len(sb) -> 1..Len(s)] :
        /\ \A i, j \in 1..Len(sb) : i < j => f[i] < f[j]
        /\ \A i \in 1..Len(sb) : s[f[i]] = sb[i]

\* C6: for non-empty sub, SliceSubset(sl, sub) is true if and only if sub is
\* a subsequence of sl.
C6_SubsetIffSubsequence ==
    ("SliceSubset" \in called /\ sub # <<>>) =>
        out.SliceSubset = Returned(IsSubsequence(sub, sl))

\* C7: SliceSubset and SliceSubsetStrict complete and return a boolean for
\* every pair of slices, an empty sub and an empty sl included.
C7_SubsetNeverPanics ==
    /\ "SliceSubset" \in called => ~out.SliceSubset.panic
    /\ "SliceSubsetStrict" \in called => ~out.SliceSubsetStrict.panic

\* C8: for non-empty sub, SliceSubsetStrict(sl, sub) is true if and only if
\* SliceSubset(sl, sub) is true and len(sub) < len(sl); SliceSubsetStrict(S, S)
\* is false for every S.
C8_StrictIffSubsetAndShorter ==
    /\ ({"SliceSubset", "SliceSubsetStrict"} \subseteq called /\ sub # <<>>) =>
           /\ ~out.SliceSubsetStrict.panic
           /\ ~out.SliceSubset.panic
           /\ out.SliceSubsetStrict.val =
                  (out.SliceSubset.val /\ Len(sub) < Len(sl))
    /\ ("SliceSubsetStrict" \in called /\ sub = sl) =>
           out.SliceSubsetStrict = Returned(FALSE)

\* Both functions were called on a sub of two or more elements that is
\* shorter than sl, and both returned true.
C8_Witness ==
    /\ called = {"SliceSubset", "SliceSubsetStrict"}
    /\ Len(sub) >= 2 /\ Len(sub) < Len(sl)
    /\ out.SliceSubsetStrict = Returned(TRUE)
    /\ out.SliceSubset = Returned(TRUE)

\* C9: SliceSubset(S, S) is true for every S.
C9_SubsetOfEqualSlice ==
    ("SliceSubset" \in called /\ sub = sl) => out.SliceSubset = Returned(TRUE)

\* sb occurs in s as a run of consecutive elements.
IsContiguousRun(sb, s) ==
    \E k \in 0..(Len(s) - Len(sb)) : \A i \in 1..Len(sb) : s[k + i] = sb[i]

\* C18: for non-empty sub, whenever SliceSubset(sl, sub) or
\* SliceSubsetStrict(sl, sub) returns true, sub occurs in sl as a run of
\* consecutive elements, and so is a subsequence of sl.
C18_NoFalsePositives ==
    /\ ("SliceSubset" \in called /\ sub # <<>> /\ out.SliceSubset = Returned(TRUE)) =>
           (IsContiguousRun(sub, sl) /\ IsSubsequence(sub, sl))
    /\ ("SliceSubsetStrict" \in called /\ sub # <<>>
            /\ out.SliceSubsetStrict = Returned(TRUE)) =>
           (IsContiguousRun(sub, sl) /\ IsSubsequence(sub, sl))

\* Both functions returned true for a sub of two elements or more that is
\* found after a mismatch: sl does not begin with sub.
C18_Witness ==
    /\ called = {"SliceSubset", "SliceSubsetStrict"}
    /\ Len(sub) >= 2
    /\ out.SliceSubset = Returned(TRUE)
    /\ out.SliceSubsetStrict = Returned(TRUE)
    /\ SubSeq(sl, 1, Len(sub)) # sub

\* ------------------------------------------------- Queue / Stack claims

\* C1: the Queue is FIFO.  In every state reached by Enqueue and Dequeue from
\* an empty Queue, the values read from Head along the Next links are the
\* enqueued-but-not-dequeued values in enqueue order, and a successful
\* Dequeue returned the earliest of them.
C1_QueueFIFO ==
    obj = "Queue" =>
        /\ LLRange(nodes, qHead) = abs
        /\ (ret.op = "Dequeue" /\ ret.err = "nil") =>
               (absRet.err = "nil" /\ ret.val = absRet.val)

\* A Dequeue that succeeded after at least one earlier removal and returned
\* a value other than the one now at the head, with elements left.
C1_Witness ==
    /\ obj = "Queue"
    /\ ret.op = "Dequeue" /\ ret.err = "nil"
    /\ rem >= 2 /\ Len(abs) >= 2
    /\ ret.val # abs[1] /\ ret.val # abs[Len(abs)]

\* C2: the Stack is LIFO.  In every state reached by Push and Pop from an
\* empty Stack, the values read from Head along the Next links are the
\* pushed-but-not-popped values from top to bottom, and a successful Pop
\* returned the most recently pushed of them.
C2_StackLIFO ==
    obj = "Stack" =>
        /\ LLRange(nodes, sHead) = abs
        /\ (ret.op = "Pop" /\ ret.err = "nil") =>
               (absRet.err = "nil" /\ ret.val = absRet.val)

\* A Pop that succeeded after at least one earlier removal and returned a
\* value other than the ones now at the top and at the bottom.
C2_Witness ==
    /\ obj = "Stack"
    /\ ret.op = "Pop" /\ ret.err = "nil"
    /\ rem >= 2 /\ Len(abs) >= 2
    /\ ret.val # abs[1] /\ ret.val # abs[Len(abs)]

\* C3: Dequeue (Pop) returns ErrQueueEmpty (ErrStackEmpty) exactly when the
\* number of stored elements, insertions minus successful removals, is zero
\* and a nil error otherwise; a failing call leaves the heap and the nil Head
\* as they were, and the Enqueue (Push) that follows it yields a one-element
\* structure.
C3_EmptyErrorIffEmpty ==
    [][ /\ Dequeue =>
              /\ ret'.err = (IF ins - rem = 0 THEN "ErrQueueEmpty" ELSE "nil")
              /\ ret'.err = "ErrQueueEmpty" =>
                     (qHead = NIL /\ qHead' = NIL /\ nodes' = nodes)
        /\ Pop =>
              /\ ret'.err = (IF ins - rem = 0 THEN "ErrStackEmpty" ELSE "nil")
              /\ ret'.err = "ErrStackEmpty" =>
                     (sHead = NIL /\ sHead' = NIL /\ nodes' = nodes)
        /\ (ret.err = "ErrQueueEmpty" /\ ret'.op = "Enqueue") =>
              (qHead' # NIL /\ LLLen(nodes', qHead') = 1)
        /\ (ret.err = "ErrStackEmpty" /\ ret'.op = "Push") =>
              (sHead' # NIL /\ LLLen(nodes', sHead') = 1)
      ]_vars

\* A structure that held elements, was emptied, and then had its removal
\* operation fail.
C3_Witness ==
    /\ ret.err \in {"ErrQueueEmpty", "ErrStackEmpty"}
    /\ ins >= 2 /\ ins = rem
    /\ qHead = NIL /\ sHead = NIL

\* The nodes met from head along the Next links, at most Len(h) of them.
RECURSIVE ChainLoop(_, _, _, _)
ChainLoop(h, curr, fuel, acc) ==
    IF curr = NIL \/ fuel = 0
    THEN acc
    ELSE ChainLoop(h, h[curr].Next, fuel - 1, Append(acc, curr))

Chain(h, head) == ChainLoop(h, head, Len(h), <<>>)

\* The chain from head is a well-formed doubly linked chain: head has no
\* Prev, and every node of it with a Next is the Prev of that Next.
WellFormedChain(h, head) ==
    head # NIL =>
        /\ h[head].Prev = NIL
        /\ LET chain == Chain(h, head)
           IN  \A k \in 1..Len(chain) :
                   h[chain[k]].Next # NIL => h[h[chain[k]].Next].Prev = chain[k]

\* C14: in every state reached from an empty Queue by Enqueue and Dequeue, if
\* Head is non-nil then Head.Prev is nil and every node n reachable from Head
\* with a Next satisfies n.Next.Prev = n.
C14_QueueChainWellFormed ==
    obj = "Queue" => WellFormedChain(nodes, qHead)

\* C15: in every state reached from an empty Stack by Push and Pop, if Head
\* is non-nil then Head.Prev is nil and every node n reachable from Head with
\* a Next satisfies n.Next.Prev = n.
C15_StackChainWellFormed ==
    obj = "Stack" => WellFormedChain(nodes, sHead)

\* A Pop succeeded and left two elements or more on the Stack.
C15_Witness ==
    /\ obj = "Stack"
    /\ ret.op = "Pop" /\ ret.err = "nil"
    /\ sHead # NIL
    /\ Len(Chain(nodes, sHead)) >= 2

\* C16: in every state reached from an empty Queue (Stack), Head.Len() is the
\* number of insertions minus the number of successful removals, and Head is
\* nil if and only if that number is zero.
C16_LenTracksHistory ==
    /\ obj = "Queue" =>
           /\ LLLen(nodes, qHead) = ins - rem
           /\ (qHead = NIL) <=> (ins - rem = 0)
    /\ obj = "Stack" =>
           /\ LLLen(nodes, sHead) = ins - rem
           /\ (sHead = NIL) <=> (ins - rem = 0)

\* The removal of the last element, after three insertions or more, has
\* brought the structure back to the nil Head.
C16_Witness ==
    /\ ret.op \in {"Dequeue", "Pop"} /\ ret.err = "nil"
    /\ ins >= 3 /\ ins = rem
    /\ qHead = NIL /\ sHead = NIL

\* ------------------------------------------------------- LLNode claims

\* C13: after any sequence of AddToTail, AddToHead and RemoveSelf calls on any
\* nodes, removed ones with stale links included, following Next from any
\* node reaches nil in finitely many steps: no cycle is formed along Next.
C13_NoCycleAlongNext ==
    \A n \in 1..Len(nodes) :
        /\ Terminates(nodes, n)
        /\ LLLen(nodes, n) \in 1..Len(nodes)
        /\ Len(LLRange(nodes, n)) = LLLen(nodes, n)
        /\ TailLoop(nodes, n) \in 1..Len(nodes)

\* Three nodes or more, one whose Next does not point back at it and one
\* whose Prev does not point forward at it: stale links left by a removal or
\* by an AddToHead on a node inside a chain.
C13_Witness ==
    /\ obj = "Nodes"
    /\ Len(nodes) >= 3
    /\ \E n \in 1..Len(nodes) :
           nodes[n].Next # NIL /\ nodes[nodes[n].Next].Prev # n
    /\ \E m \in 1..Len(nodes) :
           nodes[m].Prev # NIL /\ nodes[nodes[m].Prev].Next # m

\* n is a node other than hd of the well-formed chain that starts at hd.
NonHeadOfWellFormedChain(h, hd, n) ==
    /\ hd # n
    /\ h[hd].Prev = NIL
    /\ LET chain == Chain(h, hd)
       IN  /\ \E k \in 1..Len(chain) : chain[k] = n
           /\ WellFormedChain(h, hd)

\* The sequence without its k-th element.
RemoveAt(seq, k) == SubSeq(seq, 1, k - 1) \o SubSeq(seq, k + 1, Len(seq))

\* What C17 says of one n.RemoveSelf() step on the chain that starts at hd.
RemoveSelfEffect(hd, n) ==
    LET p == nodes[n].Prev
        x == nodes[n].Next
        chain == Chain(nodes, hd)
        k == CHOOSE i \in 1..Len(chain) : chain[i] = n
    IN  /\ Len(nodes') = Len(nodes)
        /\ p # NIL
        /\ nodes'[p].Next = x
        /\ x # NIL => nodes'[x].Prev = p
        /\ nodes'[n] = nodes[n]
        /\ \A m \in 1..Len(nodes) :
               /\ nodes'[m].Value = nodes[m].Value
               /\ m # p => nodes'[m].Next = nodes[m].Next
               /\ m # x => nodes'[m].Prev = nodes[m].Prev
        /\ Chain(nodes', hd) = RemoveAt(chain, k)
        /\ LLRange(nodes', hd) = RemoveAt(LLRange(nodes, hd), k)

\* C17: RemoveSelf on a non-head node n of a well-formed chain makes n.Prev.Next
\* the old n.Next and, if there is one, n.Next.Prev the old n.Prev; leaves n's
\* own Value, Prev and Next, every other node's Value and all other links as
\* they were; and Range from the head then is the old sequence without the
\* element at n's position.
C17_RemoveSelfRelinksNeighbours ==
    [][ \A n \in 1..Len(nodes) :
          NodeRemoveSelf(n) =>
              \A hd \in 1..Len(nodes) :
                  NonHeadOfWellFormedChain(nodes, hd, n) => RemoveSelfEffect(hd, n)
      ]_vars

\* The state RemoveSelf leaves behind on the middle node n of a well-formed
\* chain of three nodes or more: the chain from hd is well formed and joins
\* n's old neighbours, and n, no longer in it, still points at both.
C17_Witness ==
    \E hd, n \in 1..Len(nodes) :
        /\ hd # n
        /\ nodes[hd].Prev = NIL
        /\ WellFormedChain(nodes, hd)
        /\ Len(Chain(nodes, hd)) >= 2
        /\ \A k \in 1..Len(Chain(nodes, hd)) : Chain(nodes, hd)[k] # n
        /\ nodes[n].Prev # NIL /\ nodes[n].Next # NIL
        /\ nodes[nodes[n].Prev].Next = nodes[n].Next
        /\ nodes[nodes[n].Next].Prev = nodes[n].Prev
        /\ \E k \in 1..Len(Chain(nodes, hd)) : Chain(nodes, hd)[k] = nodes[n].Prev
        /\ nodes[n].Value # nodes[nodes[n].Prev].Value

====
